---------------------------- MODULE Spec2Model ----------------------------
(***************************************************************************)
(* Verification model of the attendance tracker of the hostel client:      *)
(*   - pages/AttendanceTrackerPage.tsx : the page state and its handlers   *)
(*     (optimistic update, reconcile on success, rollback on failure),     *)
(*     including the effect that re-fetches the course list whenever the   *)
(*     selected course id or the number of displayed courses changes;      *)
(*   - services/attendanceService.ts   : transformCourse, retryRequest and *)
(*     the course-service calls built on them.                             *)
(* The backend is an environment: it answers each request at some later    *)
(* moment, successfully or with an error, and answers reach the page in    *)
(* any order.                                                              *)
(***************************************************************************)
EXTENDS Integers, Sequences, FiniteSets, TLC

(***************************************************************************)
(* Bounds of the model.                                                    *)
(***************************************************************************)
\* user operations that make the page send a request (add a course, delete one,
\* click a day, select another course) in the page specification
MaxOps == 2
\* clicks on calendar days in the calendar specification
MaxClicks == 3
\* clicks on Approve Deal in the room-requests specification
MaxDealClicks == 6
\* calls of the friends service in the friends specification
MaxFriendOps == 3
\* submissions confirmed on the list-room page
MaxSubmits == 2

(***************************************************************************)
(* Program constants.                                                      *)
(***************************************************************************)
\* retryRequest(requestFn, maxRetries = 2, delay = 1000)
maxRetries == 2
\* handleAddCourse / fetchCourses: at most six courses are auto-displayed
MaxDisplayed == 6
\* the calendar's "today" as a day number; Days above it are future days
Today == 2

Days == {2, 3}
\* what the user types into the name input
CourseNames == {"Math"}

\* an id is <<kind, n>>: "temp" for `temp-${Date.now()}`, "srv" for a backend _id
NoId == <<"none", 0>>
TempId(n) == <<"temp", n>>
SrvId(n) == <<"srv", n>>

(***************************************************************************)
(* Sequence helpers (Array.prototype.filter / map / findIndex).            *)
(***************************************************************************)
Range(s) == {s[i] : i \in 1..Len(s)}
Without(s, d) == LET keep(x) == x # d IN SelectSeq(s, keep)
HasCourse(cs, id) == \E i \in 1..Len(cs) : cs[i].id = id
CourseOf(cs, id) == cs[CHOOSE i \in 1..Len(cs) : cs[i].id = id /\ \A j \in 1..(i-1) : cs[j].id # id]
\* prev.map(course => course.id === id ? c : course)
ReplaceCourse(cs, id, c) == [i \in 1..Len(cs) |-> IF cs[i].id = id THEN c ELSE cs[i]]
\* prev.filter(course => course.id !== id)
RemoveCourse(cs, id) == LET keep(c) == c.id # id IN SelectSeq(cs, keep)
FirstIdOrNull(cs) == IF Len(cs) > 0 THEN cs[1].id ELSE NoId

(***************************************************************************)
(* services/attendanceService.ts                                           *)
(***************************************************************************)
\* a backend course: [_id, name, attendanceHistory], the history a sequence of
\* [date, present]; date 0 stands for an entry whose date is undefined
\* COURSE_COLORS[0], which is also transformCourse's default colour; the page
\* model gives every course this colour
DefaultColor == "#8B5CF6"
BackendCourse(id, name, hist) ==
    [_id |-> id, name |-> name, color |-> DefaultColor, attendanceHistory |-> hist]
Course(id, name, att, mis) ==
    [id |-> id, name |-> name, color |-> DefaultColor, attendedDays |-> att, missedDays |-> mis]
NoCourse == Course(NoId, "", <<>>, <<>>)

DatesOf(hist) == [i \in 1..Len(hist) |-> hist[i].date]
IsPresent(e) == e.present = TRUE
IsAbsent(e) == e.present = FALSE
Truthy(d) == d # 0

\* a plausible slip: entries without a date are not filtered out
transformCourseUnfiltered(bc) ==
    [id |-> IF bc._id # NoId THEN bc._id ELSE TempId(0),
     name |-> IF bc.name # "" THEN bc.name ELSE "Unnamed Course",
     color |-> IF bc.color # "" THEN bc.color ELSE DefaultColor,
     attendedDays |-> DatesOf(SelectSeq(bc.attendanceHistory, IsPresent)),
     missedDays |-> DatesOf(SelectSeq(bc.attendanceHistory, IsAbsent))]

\* a plausible slip: the two filters are exchanged
transformCourseSwapped(bc) ==
    [id |-> IF bc._id # NoId THEN bc._id ELSE TempId(0),
     name |-> IF bc.name # "" THEN bc.name ELSE "Unnamed Course",
     color |-> IF bc.color # "" THEN bc.color ELSE DefaultColor,
     attendedDays |-> SelectSeq(DatesOf(SelectSeq(bc.attendanceHistory, IsAbsent)), Truthy),
     missedDays |-> SelectSeq(DatesOf(SelectSeq(bc.attendanceHistory, IsPresent)), Truthy)]

\* a missing _id, name or color is NoId, "" or "": `x || default`; TempId(0)
\* stands for `temp-${Date.now()}`
transformCourse(bc) ==
    [id |-> IF bc._id # NoId THEN bc._id ELSE TempId(0),
     name |-> IF bc.name # "" THEN bc.name ELSE "Unnamed Course",
     color |-> IF bc.color # "" THEN bc.color ELSE DefaultColor,
     attendedDays |-> SelectSeq(DatesOf(SelectSeq(bc.attendanceHistory, IsPresent)), Truthy),
     missedDays |-> SelectSeq(DatesOf(SelectSeq(bc.attendanceHistory, IsAbsent)), Truthy)]

\* an error as the retry loop sees it: statusCode 0 stands for "no statusCode"
\* (a rejected fetch, or a plain Error thrown inside the request function)
NoStatus == 0
ApiError(message, statusCode) == [statusCode |-> statusCode, message |-> message]
BackendMessage == "backend message"
NetworkError == ApiError("Failed to fetch", NoStatus)
InvalidFormatError == ApiError("Invalid response format: expected array of courses", NoStatus)

ResponseOk(status) == status >= 200 /\ status <= 299

\* a plausible slip: the envelope's success flag is not looked at
handleResponseOkOnly(r) ==
    IF ResponseOk(r.status)
    THEN [kind |-> "ok", error |-> ApiError("", NoStatus)]
    ELSE [kind |-> "error",
          error |-> ApiError(IF r.json /\ r.message # "" THEN r.message
                             ELSE "An unexpected error occurred (HTTP status).", r.status)]

\* handleResponse: "ok" with the envelope's data, or the ApiError thrown;
\* r.json says whether the content type is JSON, r.message is the envelope's
\* message ("" when it has none)
handleResponse(r) ==
    IF r.json
    THEN IF ResponseOk(r.status) /\ r.success
         THEN [kind |-> "ok", error |-> ApiError("", NoStatus)]
         ELSE [kind |-> "error",
               error |-> ApiError(IF r.message # "" THEN r.message
                                  ELSE "An unexpected error occurred (HTTP status).",
                                  r.status)]
    ELSE IF ResponseOk(r.status)
         THEN [kind |-> "ok", error |-> ApiError("", NoStatus)]
         ELSE [kind |-> "error",
               error |-> ApiError("An unexpected error occurred (HTTP status).", r.status)]

\* a plausible slip: 400 itself is not taken for a client error
IsClientErrorAbove400(e) == e.statusCode > 400 /\ e.statusCode < 500

\* retryRequest's catch block: what the loop does with the error of attempt
\* number `attempt` (0-based)
IsClientError(e) == e.statusCode >= 400 /\ e.statusCode < 500
BacksOff(attempt, e) == attempt < maxRetries /\ (e.statusCode >= 500 \/ e.statusCode = NoStatus)
\* a plausible slip: the loop runs while attempt <= maxRetries + 1
CatchDecisionOneMore(attempt, e) ==
    IF IsClientError(e) THEN "throw"
    ELSE IF attempt < maxRetries /\ (e.statusCode >= 500 \/ e.statusCode = NoStatus) THEN "wait"
    ELSE IF attempt + 1 <= maxRetries + 1 THEN "again"
    ELSE "throwLast"

CatchDecision(attempt, e) ==
    IF IsClientError(e) THEN "throw"
    ELSE IF BacksOff(attempt, e) THEN "wait"
    ELSE IF attempt + 1 <= maxRetries THEN "again"
    ELSE "throwLast"
Rethrown(attempt, e) == CatchDecision(attempt, e) \in {"throw", "throwLast"}

(***************************************************************************)
(* State.                                                                  *)
(***************************************************************************)
VARIABLES
    \* AttendanceTrackerPage useState
    courses, selectedCourseId, newCourseName, isLoading, error,
    displayedCourseIds, courseToDelete, deleteConfirmationText,
    \* handler invocations suspended at their await, oldest first
    fetchCalls, addCalls, deleteCalls, markCalls,
    \* the backend: its courses, and the ids handed out so far
    server, nextSrv, nextTemp,
    \* user operations so far and the number allowed, and the last step taken
    ops, budget, lastEvent,
    \* one run of retryRequest
    rFn, rPc, rAttempt, rDelay, rLastError, rHist, rOutcome,
    \* commonChatService: the voter lists of the stored poll, and the last call
    pollVoters, pollLast,
    \* one application of a function of the service layer: which one, its
    \* argument, and its result once it has returned
    fnName, fnIn, fnOut,
    \* the HTTP requests handed to fetch so far
    httpSent,
    \* MonthlyCalendar: the instant of the render and the browser's time zone,
    \* and the onDayClick calls made
    calTime, calClicks,
    \* RoomRequestsPage: the logged-in user, the requests state, the approvals
    \* arrays (shared by every copy of a request), the tab, what the cards showed
    \* at the last render, the congratulation modal, the invocations of
    \* handleApproveDeal waiting for swapUserRooms, the users' rooms, and the
    \* number of executions of swapUserRooms per request and of Approve clicks
    dealUser, allRequests, approvals, activeTab, hasApprovedShown, congrats,
    dealCalls, roomOf, swapCount, dealClicks,
    \* the friends service: friendsData, friendRequestsData, the clock that
    \* names new requests, the calls made so far and the last one
    friendsData, friendRequestsData, friendNow, friendOps, friendLast,
    \* ListRoomPage: its useState values, and the submissions confirmed so far
    listPage, listSubs

pageVars == <<courses, selectedCourseId, newCourseName, isLoading, error,
              displayedCourseIds, courseToDelete, deleteConfirmationText,
              fetchCalls, addCalls, deleteCalls, markCalls,
              server, nextSrv, nextTemp, ops, budget, lastEvent>>
retryVars == <<rFn, rPc, rAttempt, rDelay, rLastError, rHist, rOutcome>>
pollVars == <<pollVoters, pollLast>>
\* the components other than the attendance page and retryRequest
fnVars == <<fnName, fnIn, fnOut>>
calVars == <<calTime, calClicks>>
dealVars == <<dealUser, allRequests, approvals, activeTab, hasApprovedShown, congrats,
              dealCalls, roomOf, swapCount, dealClicks>>
friendVars == <<friendsData, friendRequestsData, friendNow, friendOps, friendLast>>
auxVars == <<pollVars, fnVars, httpSent, calVars, dealVars, friendVars, listPage, listSubs>>
vars == <<pageVars, retryVars, auxVars>>

\* no call of voteOnPoll yet, on a chat whose poll has no vote
NoVote == [userId |-> "", optionIndex |-> 0, messageId |-> "", result |-> FALSE, before |-> <<>>]
PollIdle == pollVoters = <<>> /\ pollLast = NoVote
FnIdle == fnName = "" /\ fnIn = <<>> /\ fnOut = [done |-> FALSE]
CalIdle == calTime = [now |-> 0, tz |-> 0] /\ calClicks = {}
\* the requests page is not mounted
DealIdle ==
    /\ dealUser = "" /\ allRequests = <<>> /\ approvals = <<>> /\ activeTab = "received"
    /\ hasApprovedShown = <<>> /\ dealCalls = <<>>
    /\ congrats = [open |-> FALSE, partner |-> "", room |-> ""]
    /\ roomOf = <<>> /\ swapCount = <<>> /\ dealClicks = 0
\* the friends service has not been loaded
FriendIdle ==
    /\ friendsData = <<>> /\ friendRequestsData = <<>> /\ friendNow = 0
    /\ friendOps = 0 /\ friendLast = [fn |-> ""]
\* the list-room page is not mounted
ListIdle == listPage = [mounted |-> FALSE] /\ listSubs = <<>>
AuxIdle == PollIdle /\ FnIdle /\ httpSent = {} /\ CalIdle /\ DealIdle /\ FriendIdle /\ ListIdle

(***************************************************************************)
(* retryRequest, one step per await.                                       *)
(***************************************************************************)
ServiceFns == {"getCourses", "addCourse", "deleteCourse", "markAttendance"}
Statuses == {200, 204, 400, 401, 403, 404, 409, 500, 503}
\* what one fetch can come back with; `array` says whether the data is an array
Replies == [network : BOOLEAN, status : Statuses, json : BOOLEAN,
            success : BOOLEAN, array : BOOLEAN, message : {BackendMessage}]

\* one evaluation of requestFn: the api call, then the function's own checks
RequestOutcome(fn, reply) ==
    IF reply.network THEN [kind |-> "error", error |-> NetworkError]
    ELSE LET h == handleResponse(reply)
         IN IF h.kind = "ok" /\ fn = "getCourses" /\ ~reply.array
            THEN [kind |-> "error", error |-> InvalidFormatError]
            ELSE h

InitialDelay == 1000

RetryIdle ==
    /\ rPc = "request" /\ rAttempt = 0 /\ rDelay = InitialDelay
    /\ rLastError = ApiError("", NoStatus) /\ rHist = <<>>
    /\ rOutcome = [kind |-> "none", error |-> ApiError("", NoStatus)]

\* `return await requestFn()` and the catch block
RetryAttempt ==
    /\ rPc = "request"
    /\ \E reply \in Replies :
         LET o == RequestOutcome(rFn, reply)
             d == CatchDecision(rAttempt, o.error)
         IN /\ rHist' = Append(rHist, o)
            /\ IF o.kind = "ok"
               THEN /\ rPc' = "returned"
                    /\ rOutcome' = [kind |-> "returned", error |-> ApiError("", NoStatus)]
                    /\ UNCHANGED <<rAttempt, rLastError>>
               ELSE /\ rLastError' = o.error
                    /\ IF d = "throw"
                       THEN /\ rPc' = "thrown"
                            /\ rOutcome' = [kind |-> "thrown", error |-> o.error]
                            /\ UNCHANGED rAttempt
                       ELSE IF d = "wait"
                       THEN /\ rPc' = "wait"
                            /\ UNCHANGED <<rAttempt, rOutcome>>
                       ELSE IF d = "again"
                       THEN /\ rPc' = "request"
                            /\ rAttempt' = rAttempt + 1
                            /\ UNCHANGED rOutcome
                       ELSE /\ rPc' = "thrown"
                            /\ rAttempt' = rAttempt + 1
                            /\ rOutcome' = [kind |-> "thrown", error |-> rLastError']
    /\ UNCHANGED <<rFn, rDelay, pageVars, auxVars>>

\* the setTimeout has fired: delay *= 2, next iteration
RetryBackoff ==
    /\ rPc = "wait"
    /\ rDelay' = rDelay * 2
    /\ rAttempt' = rAttempt + 1
    /\ rPc' = "request"
    /\ UNCHANGED <<rFn, rLastError, rHist, rOutcome, pageVars, auxVars>>

(***************************************************************************)
(* AttendanceTrackerPage: helpers.                                         *)
(***************************************************************************)
NoError == ApiError("", NoStatus)
\* lastEvent after a step that resumes no handler at its await
Other == [op |-> "other"]
RemoveAt(s, i) == [j \in 1..(Len(s) - 1) |-> IF j < i THEN s[j] ELSE s[j + 1]]
Ids(cs) == {cs[i].id : i \in 1..Len(cs)}
FirstN(cs, n) == IF Len(cs) <= n THEN cs ELSE SubSeq(cs, 1, n)

\* the alert text: `text` with `name` interpolated into it ("" when it has none)
Msg(text, name) == [text |-> text, name |-> name]
NoMsg == Msg("", "")

DefaultMessage(what) ==
    IF what = "fetch" THEN "Failed to load courses"
    ELSE IF what = "add" THEN "Failed to create course"
    ELSE IF what = "delete" THEN "Failed to delete course"
    ELSE "Failed to mark attendance"

Denied(what) ==
    IF what = "fetch" THEN "Access denied. You may not have permission to view courses."
    ELSE IF what = "add" THEN "Access denied. You may not have permission to create courses."
    ELSE IF what = "delete" THEN "Access denied. You may not have permission to delete courses."
    ELSE "Access denied. You may not have permission to modify attendance."

\* the message each catch block derives from the error (`what` names the handler)
MessageFor(what, e, courseName) ==
    IF e.statusCode = 401 THEN Msg("Authentication required. Please login again.", "")
    ELSE IF e.statusCode = 403 THEN Msg(Denied(what), "")
    ELSE IF e.statusCode = 404 /\ what = "fetch"
         THEN Msg("Attendance service not found. Please check server status.", "")
    ELSE IF e.statusCode = 404 /\ what = "delete"
         THEN Msg("Course not found. It may have already been deleted.", "")
    ELSE IF e.statusCode = 404 /\ what = "mark"
         THEN Msg("Course not found. It may have been deleted.", "")
    ELSE IF e.statusCode = 409 /\ what = "add"
         THEN Msg("Course name already exists. Please choose a different name.", courseName)
    ELSE IF e.statusCode = 400 /\ what = "add"
         THEN Msg(IF e.message # "" THEN e.message ELSE "Invalid course data provided.", "")
    ELSE IF e.statusCode >= 500
         THEN Msg(IF what = "fetch" THEN "Server error. Please try again later."
                  ELSE "Server error. Please try again.", "")
    ELSE IF e.message # "" THEN Msg(e.message, "")
    ELSE Msg(DefaultMessage(what), "")

\* a fetchCourses invocation: its closure holds the selectedCourseId and the
\* displayedCourseIds.size of the render that created it
NewFetch(sel, dispSize) ==
    [sel |-> sel, dispSize |-> dispSize, phase |-> "sent",
     err |-> NoError, data |-> <<>>]

\* a plausible slip: fetchCourses does not depend on the selection and the
\* displayed set, so no commit starts it again
RenderWithoutRefetch(sel2, disp2, loading2, error2, fc) ==
    /\ selectedCourseId' = sel2
    /\ displayedCourseIds' = disp2
    /\ fetchCalls' = fc
    /\ isLoading' = loading2
    /\ error' = error2

\* One commit of the component: the new selectedCourseId and displayedCourseIds,
\* and the isLoading and error the handler left.  fetchCourses is re-created when
\* selectedCourseId or displayedCourseIds.size changed, and the effect that
\* depends on it then calls it: setIsLoading(true), setError(''), one more GET.
\* `fc` is fetchCalls without the invocation that is resuming, if any.
Render(sel2, disp2, loading2, error2, fc) ==
    /\ selectedCourseId' = sel2
    /\ displayedCourseIds' = disp2
    /\ IF sel2 # selectedCourseId \/ Cardinality(disp2) # Cardinality(displayedCourseIds)
       THEN /\ fetchCalls' = Append(fc, NewFetch(sel2, Cardinality(disp2)))
            /\ isLoading' = TRUE
            /\ error' = NoMsg
       ELSE /\ fetchCalls' = fc
            /\ isLoading' = loading2
            /\ error' = error2

\* const selectedCourse = courses.find(c => c.id === selectedCourseId) || null
HasSelectedCourse == HasCourse(courses, selectedCourseId)
selectedCourse == CourseOf(courses, selectedCourseId)

(***************************************************************************)
(* The backend, as the integration guides describe it.  It answers one     *)
(* request at a time; the answer waits in the call record until the page   *)
(* resumes the handler.  One step stands for a whole run of retryRequest   *)
(* (SpecRetry below): attempts that fail leave the backend as it was, so   *)
(* only the attempt that returns, or the error finally thrown, is seen.    *)
(***************************************************************************)
HasBackendCourse(id) == \E i \in 1..Len(server) : server[i]._id = id
BackendCourseOf(id) == server[CHOOSE i \in 1..Len(server) : server[i]._id = id]
NameTaken(name) == \E i \in 1..Len(server) : server[i].name = name

\* PATCH /attendance/courses/:id/mark with {date, present?}: the entry of that
\* date is replaced, or removed when `present` is omitted ('clear')
MarkedHistory(hist, date, status) ==
    LET keep(e) == e.date # date
        rest == SelectSeq(hist, keep)
    IN IF status = "attended" THEN Append(rest, [date |-> date, present |-> TRUE])
       ELSE IF status = "missed" THEN Append(rest, [date |-> date, present |-> FALSE])
       ELSE rest

\* what a service call can throw whatever the request: the server stayed down
\* through the last attempt
TransientErrors == {ApiError(BackendMessage, 500)}

Answered(call, data) == [call EXCEPT !.phase = "ok", !.data = data]
Failed(call, e) == [call EXCEPT !.phase = "err", !.err = e]

\* GET /attendance/courses, then getCourses' map(transformCourse)
ServerGetCourses(i) ==
    /\ i \in 1..Len(fetchCalls) /\ fetchCalls[i].phase = "sent"
    /\ fetchCalls' = [fetchCalls EXCEPT
           ![i] = Answered(@, [k \in 1..Len(server) |-> transformCourse(server[k])])]
    /\ lastEvent' = Other
    /\ UNCHANGED <<courses, selectedCourseId, newCourseName, isLoading, error,
                   displayedCourseIds, courseToDelete, deleteConfirmationText,
                   addCalls, deleteCalls, markCalls, server, nextSrv, nextTemp, ops, budget, retryVars, auxVars>>

\* POST /attendance/courses: 409 when the name exists, else a new course
ServerAddCourse(i) ==
    /\ i \in 1..Len(addCalls) /\ addCalls[i].phase = "sent"
    /\ IF NameTaken(addCalls[i].courseName)
       THEN /\ addCalls' = [addCalls EXCEPT ![i] = Failed(@, ApiError(BackendMessage, 409))]
            /\ UNCHANGED <<server, nextSrv>>
       ELSE LET bc == BackendCourse(SrvId(nextSrv), addCalls[i].courseName, <<>>)
            IN /\ server' = Append(server, bc)
               /\ nextSrv' = nextSrv + 1
               /\ addCalls' = [addCalls EXCEPT ![i] = Answered(@, transformCourse(bc))]
    /\ lastEvent' = Other
    /\ UNCHANGED <<courses, selectedCourseId, newCourseName, isLoading, error,
                   displayedCourseIds, courseToDelete, deleteConfirmationText,
                   fetchCalls, deleteCalls, markCalls, nextTemp, ops, budget, retryVars, auxVars>>

\* DELETE /attendance/courses/:id: 404 when there is no such course
ServerDeleteCourse(i) ==
    /\ i \in 1..Len(deleteCalls) /\ deleteCalls[i].phase = "sent"
    /\ IF HasBackendCourse(deleteCalls[i].courseId)
       THEN /\ server' = LET keep(bc) == bc._id # deleteCalls[i].courseId
                         IN SelectSeq(server, keep)
            /\ deleteCalls' = [deleteCalls EXCEPT ![i].phase = "ok"]
       ELSE /\ deleteCalls' = [deleteCalls EXCEPT ![i] = Failed(@, ApiError(BackendMessage, 404))]
            /\ UNCHANGED server
    /\ lastEvent' = Other
    /\ UNCHANGED <<courses, selectedCourseId, newCourseName, isLoading, error,
                   displayedCourseIds, courseToDelete, deleteConfirmationText,
                   fetchCalls, addCalls, markCalls, nextSrv, nextTemp, ops, budget, retryVars, auxVars>>

\* PATCH /attendance/courses/:id/mark: 404 when there is no such course
ServerMarkAttendance(i) ==
    /\ i \in 1..Len(markCalls) /\ markCalls[i].phase = "sent"
    /\ IF HasBackendCourse(markCalls[i].courseId)
       THEN LET old == BackendCourseOf(markCalls[i].courseId)
                new == [old EXCEPT !.attendanceHistory =
                           MarkedHistory(@, markCalls[i].date, markCalls[i].status)]
            IN /\ server' = [k \in 1..Len(server) |->
                                IF server[k]._id = old._id THEN new ELSE server[k]]
               /\ markCalls' = [markCalls EXCEPT ![i] = Answered(@, transformCourse(new))]
       ELSE /\ markCalls' = [markCalls EXCEPT ![i] = Failed(@, ApiError(BackendMessage, 404))]
            /\ UNCHANGED server
    /\ lastEvent' = Other
    /\ UNCHANGED <<courses, selectedCourseId, newCourseName, isLoading, error,
                   displayedCourseIds, courseToDelete, deleteConfirmationText,
                   fetchCalls, addCalls, deleteCalls, nextSrv, nextTemp, ops, budget, retryVars, auxVars>>

\* any service call can instead throw one of TransientErrors
ServerError(kind, i, e) ==
    /\ e \in TransientErrors
    /\ \/ /\ kind = "fetch" /\ i \in 1..Len(fetchCalls) /\ fetchCalls[i].phase = "sent"
          /\ fetchCalls' = [fetchCalls EXCEPT ![i] = Failed(@, e)]
          /\ UNCHANGED <<addCalls, deleteCalls, markCalls>>
       \/ /\ kind = "add" /\ i \in 1..Len(addCalls) /\ addCalls[i].phase = "sent"
          /\ addCalls' = [addCalls EXCEPT ![i] = Failed(@, e)]
          /\ UNCHANGED <<fetchCalls, deleteCalls, markCalls>>
       \/ /\ kind = "delete" /\ i \in 1..Len(deleteCalls) /\ deleteCalls[i].phase = "sent"
          /\ deleteCalls' = [deleteCalls EXCEPT ![i] = Failed(@, e)]
          /\ UNCHANGED <<fetchCalls, addCalls, markCalls>>
       \/ /\ kind = "mark" /\ i \in 1..Len(markCalls) /\ markCalls[i].phase = "sent"
          /\ markCalls' = [markCalls EXCEPT ![i] = Failed(@, e)]
          /\ UNCHANGED <<fetchCalls, addCalls, deleteCalls>>
    /\ lastEvent' = Other
    /\ UNCHANGED <<courses, selectedCourseId, newCourseName, isLoading, error,
                   displayedCourseIds, courseToDelete, deleteConfirmationText,
                   server, nextSrv, nextTemp, ops, budget, retryVars, auxVars>>

\* the service call of a suspended handler has thrown
Thrown(call) == call.phase = "err"

(***************************************************************************)
(* AttendanceTrackerPage: fetchCourses.                                    *)
(***************************************************************************)
\* the try block after `await attendanceService.getCourses()`, and the finally
FetchSuccess(i) ==
    /\ i \in 1..Len(fetchCalls) /\ fetchCalls[i].phase = "ok"
    /\ LET call == fetchCalls[i]
           validatedCourses == call.data
           sel2 == IF call.sel = NoId /\ Len(validatedCourses) > 0
                   THEN validatedCourses[1].id ELSE selectedCourseId
           disp2 == IF Len(validatedCourses) > 0 /\ call.dispSize = 0
                    THEN Ids(FirstN(validatedCourses, MaxDisplayed))
                    ELSE displayedCourseIds
       IN /\ courses' = validatedCourses
          /\ Render(sel2, disp2, FALSE, error, RemoveAt(fetchCalls, i))
          /\ lastEvent' = Other
    /\ UNCHANGED <<newCourseName, courseToDelete, deleteConfirmationText,
                   addCalls, deleteCalls, markCalls, server, nextSrv, nextTemp, ops, budget, retryVars, auxVars>>

\* the catch block of fetchCourses, and the finally
FetchFail(i) ==
    /\ i \in 1..Len(fetchCalls) /\ Thrown(fetchCalls[i])
    /\ courses' = <<>>
    /\ Render(selectedCourseId, displayedCourseIds, FALSE,
              MessageFor("fetch", fetchCalls[i].err, ""), RemoveAt(fetchCalls, i))
    /\ lastEvent' = Other
    /\ UNCHANGED <<newCourseName, courseToDelete, deleteConfirmationText,
                   addCalls, deleteCalls, markCalls, server, nextSrv, nextTemp, ops, budget, retryVars, auxVars>>

(***************************************************************************)
(* AttendanceTrackerPage: handleAddCourse.                                 *)
(***************************************************************************)
\* The user types `name` into the input (setNewCourseName) and presses Add:
\* handleAddCourse up to its await, the optimistic course and the request.
handleAddCourse(name) ==
    /\ ~isLoading /\ ops < budget
    /\ name \in CourseNames
    /\ LET courseName == name
           tempId == TempId(nextTemp)
           optimisticCourse == Course(tempId, courseName, <<>>, <<>>)
           disp2 == IF Cardinality(displayedCourseIds) < MaxDisplayed
                    THEN displayedCourseIds \cup {tempId} ELSE displayedCourseIds
           sel2 == IF selectedCourseId = NoId THEN tempId ELSE selectedCourseId
           call == [tempId |-> tempId, courseName |-> courseName,
                    \* the closure: this render's selectedCourseId and courses
                    selectedCourseId |-> selectedCourseId, courses |-> courses,
                    \* the state the page was in when Add was pressed
                    preDisplayed |-> displayedCourseIds,
                    phase |-> "sent", err |-> NoError, data |-> NoCourse]
       IN /\ courses' = Append(courses, optimisticCourse)
          /\ newCourseName' = ""
          /\ addCalls' = Append(addCalls, call)
          /\ Render(sel2, disp2, isLoading, error, fetchCalls)
          /\ lastEvent' = Other
    /\ nextTemp' = nextTemp + 1
    /\ ops' = ops + 1
    /\ UNCHANGED <<courseToDelete, deleteConfirmationText, deleteCalls, markCalls,
                   server, nextSrv, budget, retryVars, auxVars>>

\* after `await attendanceService.addCourse(...)` returned createdCourse
AddSuccess(i) ==
    /\ i \in 1..Len(addCalls) /\ addCalls[i].phase = "ok"
    /\ LET call == addCalls[i]
           createdCourse == call.data
           disp2 == IF call.tempId \in displayedCourseIds
                    THEN (displayedCourseIds \ {call.tempId}) \cup {createdCourse.id}
                    ELSE displayedCourseIds
           sel2 == IF call.selectedCourseId = call.tempId
                   THEN createdCourse.id ELSE selectedCourseId
       IN /\ courses' = ReplaceCourse(courses, call.tempId, createdCourse)
          /\ Render(sel2, disp2, isLoading, error, fetchCalls)
          /\ lastEvent' = [op |-> "addSuccess", call |-> call]
    /\ addCalls' = RemoveAt(addCalls, i)
    /\ UNCHANGED <<newCourseName, courseToDelete, deleteConfirmationText,
                   deleteCalls, markCalls, server, nextSrv, nextTemp, ops, budget, retryVars, auxVars>>

\* a plausible slip: the input is left as the click cleared it
RestoredNameCleared(call) == ""

\* "Restore input value since creation failed": setNewCourseName(courseName)
RestoredName(call) == call.courseName

\* the catch block of handleAddCourse
AddFail(i) ==
    /\ i \in 1..Len(addCalls) /\ Thrown(addCalls[i])
    /\ LET call == addCalls[i]
           sel2 == IF call.selectedCourseId = call.tempId
                   THEN FirstIdOrNull(call.courses) ELSE selectedCourseId
       IN /\ courses' = RemoveCourse(courses, call.tempId)
          /\ newCourseName' = RestoredName(call)
          /\ Render(sel2, displayedCourseIds \ {call.tempId}, isLoading,
                    MessageFor("add", call.err, call.courseName), fetchCalls)
          /\ lastEvent' = [op |-> "addFail", call |-> call]
    /\ addCalls' = RemoveAt(addCalls, i)
    /\ UNCHANGED <<courseToDelete, deleteConfirmationText,
                   deleteCalls, markCalls, server, nextSrv, nextTemp, ops, budget, retryVars, auxVars>>

(***************************************************************************)
(* AttendanceTrackerPage: confirmDeleteCourse.                             *)
(***************************************************************************)
NoTarget == [id |-> NoId, name |-> ""]

\* The user presses the trash button of course card i (setCourseToDelete), types
\* the course's name into the modal and presses Delete Course:
\* confirmDeleteCourse up to its await.
confirmDeleteCourse(i) ==
    /\ ~isLoading /\ ops < budget
    /\ i \in 1..Len(courses)
    /\ LET courseToDeleteId == courses[i].id
           remainingCourses == RemoveCourse(courses, courseToDeleteId)
           sel2 == IF selectedCourseId = courseToDeleteId
                   THEN FirstIdOrNull(remainingCourses) ELSE selectedCourseId
           call == [courseId |-> courseToDeleteId, originalCourses |-> courses,
                    originalDisplayedCourseIds |-> displayedCourseIds,
                    originalSelectedCourseId |-> selectedCourseId,
                    phase |-> "sent", err |-> NoError]
       IN /\ courses' = remainingCourses
          /\ deleteCalls' = Append(deleteCalls, call)
          /\ Render(sel2, displayedCourseIds \ {courseToDeleteId}, isLoading, error, fetchCalls)
          /\ lastEvent' = Other
    /\ courseToDelete' = NoTarget
    /\ deleteConfirmationText' = ""
    /\ ops' = ops + 1
    /\ UNCHANGED <<newCourseName, addCalls, markCalls, server, nextSrv, nextTemp, budget, retryVars, auxVars>>

\* a plausible slip: the selection is left where the optimistic update put it
RestoredSelectionKept(call) == selectedCourseId

\* setSelectedCourseId(originalSelectedCourseId)
RestoredSelection(call) == call.originalSelectedCourseId

\* deleteCourse resolved: the optimistic removal stands
DeleteSuccess(i) ==
    /\ i \in 1..Len(deleteCalls) /\ deleteCalls[i].phase = "ok"
    /\ deleteCalls' = RemoveAt(deleteCalls, i)
    /\ lastEvent' = Other
    /\ UNCHANGED <<courses, selectedCourseId, newCourseName, isLoading, error,
                   displayedCourseIds, courseToDelete, deleteConfirmationText,
                   fetchCalls, addCalls, markCalls, server, nextSrv, nextTemp, ops, budget, retryVars, auxVars>>

\* the catch block of confirmDeleteCourse
DeleteFail(i) ==
    /\ i \in 1..Len(deleteCalls) /\ Thrown(deleteCalls[i])
    /\ LET call == deleteCalls[i]
       IN /\ courses' = call.originalCourses
          /\ Render(RestoredSelection(call), call.originalDisplayedCourseIds, isLoading,
                    MessageFor("delete", call.err, ""), fetchCalls)
          /\ lastEvent' = [op |-> "deleteFail", call |-> call]
    /\ deleteCalls' = RemoveAt(deleteCalls, i)
    /\ UNCHANGED <<newCourseName, courseToDelete, deleteConfirmationText,
                   addCalls, markCalls, server, nextSrv, nextTemp, ops, budget, retryVars, auxVars>>

(***************************************************************************)
(* MonthlyCalendar.handleInteraction and handleDayInteraction.             *)
(***************************************************************************)
\* const isFuture = date > today && dateString !== todayString
IsFuture(date) == date > Today /\ date # Today

\* a plausible slip: the two tests of the cycle are taken in the wrong order
NewStatusSwapped(attendedDays, missedDays, dateString) ==
    IF dateString \in attendedDays THEN "clear"
    ELSE IF dateString \in missedDays THEN "missed"
    ELSE "attended"

\* the status a click asks for: unmarked -> attended -> missed -> unmarked
NewStatus(attendedDays, missedDays, dateString) ==
    IF dateString \in attendedDays THEN "missed"
    ELSE IF dateString \in missedDays THEN "clear"
    ELSE "attended"

\* a plausible slip: the day is added to one array and left in the other
OptimisticCourseKeepsOther(currentCourse, dateString, status) ==
    IF status = "attended"
    THEN [currentCourse EXCEPT !.attendedDays = Append(Without(@, dateString), dateString)]
    ELSE IF status = "missed"
    THEN [currentCourse EXCEPT !.missedDays = Append(Without(@, dateString), dateString)]
    ELSE [currentCourse EXCEPT
             !.attendedDays = Without(@, dateString),
             !.missedDays = Without(@, dateString)]

\* "Apply the change optimistically"
OptimisticCourse(currentCourse, dateString, status) ==
    IF status = "attended"
    THEN [currentCourse EXCEPT
             !.attendedDays = Append(Without(@, dateString), dateString),
             !.missedDays = Without(@, dateString)]
    ELSE IF status = "missed"
    THEN [currentCourse EXCEPT
             !.missedDays = Append(Without(@, dateString), dateString),
             !.attendedDays = Without(@, dateString)]
    ELSE [currentCourse EXCEPT
             !.attendedDays = Without(@, dateString),
             !.missedDays = Without(@, dateString)]

\* isAttended / isMissed of a day cell
DayState(course, dateString) ==
    IF dateString \in Range(course.attendedDays) THEN "attended"
    ELSE IF dateString \in Range(course.missedDays) THEN "missed"
    ELSE "unmarked"

\* History of a click, kept for the properties only: a click continues a run
\* when it is the step right after the success of a click on the same day of
\* the same course and no other mark request is in flight; `chain` counts the
\* clicks of the run before this one, `origin` is the day's state before the
\* first of them.
ContinuesRun(dateString) ==
    /\ lastEvent.op = "markSuccess" /\ markCalls = <<>>
    /\ lastEvent.call.courseId = selectedCourseId
    /\ lastEvent.call.date = dateString

\* a click on a day of the calendar, up to the await of markAttendance
handleDayInteraction(dateString) ==
    /\ ~isLoading /\ HasSelectedCourse
    /\ dateString \in Days
    /\ IF IsFuture(dateString)
       THEN UNCHANGED <<courses, selectedCourseId, newCourseName, isLoading, error,
                        displayedCourseIds, courseToDelete, deleteConfirmationText,
                        fetchCalls, addCalls, deleteCalls, markCalls, ops, lastEvent>>
       ELSE /\ ops < budget
            /\ LET status == NewStatus(Range(selectedCourse.attendedDays),
                                       Range(selectedCourse.missedDays), dateString)
                   currentCourse == selectedCourse
                   updatedCourse == OptimisticCourse(currentCourse, dateString, status)
                   call == [courseId |-> selectedCourseId, date |-> dateString,
                            status |-> status, currentCourse |-> currentCourse,
                            phase |-> "sent", err |-> NoError, data |-> NoCourse,
                            chain |-> IF ContinuesRun(dateString)
                                      THEN lastEvent.call.chain + 1 ELSE 0,
                            origin |-> IF ContinuesRun(dateString)
                                       THEN lastEvent.call.origin
                                       ELSE DayState(currentCourse, dateString)]
               IN /\ courses' = ReplaceCourse(courses, selectedCourseId, updatedCourse)
                  /\ markCalls' = Append(markCalls, call)
                  /\ lastEvent' = Other
            /\ ops' = ops + 1
            /\ UNCHANGED <<selectedCourseId, newCourseName, isLoading, error,
                           displayedCourseIds, courseToDelete, deleteConfirmationText,
                           fetchCalls, addCalls, deleteCalls>>
    /\ UNCHANGED <<server, nextSrv, nextTemp, budget, retryVars, auxVars>>

\* a plausible slip: the optimistic value is kept
ReconciledKeepsOptimistic(cs, call) == cs

\* prevCourses.map(course => course.id === selectedCourseId ? serverUpdatedCourse : course),
\* call.data being serverUpdatedCourse
Reconciled(cs, call) == ReplaceCourse(cs, call.courseId, call.data)

\* a plausible slip: the rollback restores the optimistic course
RolledBackToUpdated(cs, call) ==
    ReplaceCourse(cs, call.courseId,
                  OptimisticCourse(call.currentCourse, call.date, call.status))

\* prevCourses.map(course => course.id === selectedCourseId ? currentCourse : course)
RolledBack(cs, call) == ReplaceCourse(cs, call.courseId, call.currentCourse)

\* "Replace optimistic update with server response"
MarkSuccess(i) ==
    /\ i \in 1..Len(markCalls) /\ markCalls[i].phase = "ok"
    /\ LET call == markCalls[i]
       IN /\ courses' = Reconciled(courses, call)
          /\ lastEvent' = [op |-> "markSuccess", call |-> call]
    /\ markCalls' = RemoveAt(markCalls, i)
    /\ UNCHANGED <<selectedCourseId, newCourseName, isLoading, error,
                   displayedCourseIds, courseToDelete, deleteConfirmationText,
                   fetchCalls, addCalls, deleteCalls, server, nextSrv, nextTemp, ops, budget, retryVars, auxVars>>

\* "Rollback optimistic update"
MarkFail(i) ==
    /\ i \in 1..Len(markCalls) /\ Thrown(markCalls[i])
    /\ LET call == markCalls[i]
       IN /\ courses' = RolledBack(courses, call)
          /\ error' = MessageFor("mark", call.err, "")
          /\ lastEvent' = [op |-> "markFail", call |-> call]
    /\ markCalls' = RemoveAt(markCalls, i)
    /\ UNCHANGED <<selectedCourseId, newCourseName, isLoading,
                   displayedCourseIds, courseToDelete, deleteConfirmationText,
                   fetchCalls, addCalls, deleteCalls, server, nextSrv, nextTemp, ops, budget, retryVars, auxVars>>

(***************************************************************************)
(* The remaining controls of the page.                                     *)
(***************************************************************************)
\* onClick={() => setSelectedCourseId(course.id)} of a course card
SelectCourse(id) ==
    /\ ~isLoading /\ ops < budget
    /\ id \in Ids(courses) /\ id # selectedCourseId
    /\ Render(id, displayedCourseIds, isLoading, error, fetchCalls)
    /\ lastEvent' = Other
    /\ ops' = ops + 1
    /\ UNCHANGED <<courses, newCourseName, courseToDelete, deleteConfirmationText,
                   addCalls, deleteCalls, markCalls, server, nextSrv, nextTemp, budget, retryVars, auxVars>>

(***************************************************************************)
(* The page specification.                                                 *)
(***************************************************************************)
\* what the backend may hold when the page is opened
InitialServers ==
    { <<>>,
      <<BackendCourse(SrvId(1), "Math", <<>>),
        BackendCourse(SrvId(2), "Physics", <<[date |-> 2, present |-> FALSE]>>)>> }

CallKinds == {"fetch", "add", "delete", "mark"}
CallSlots == 1..(budget + 2)

\* the page once mounted, with `allowed` user operations ahead
PageInit(allowed) ==
    /\ courses = <<>> /\ selectedCourseId = NoId /\ newCourseName = ""
    /\ isLoading = TRUE /\ error = NoMsg /\ displayedCourseIds = {}
    /\ courseToDelete = NoTarget /\ deleteConfirmationText = ""
    \* the mount effect has called fetchCourses
    /\ fetchCalls = <<NewFetch(NoId, 0)>>
    /\ addCalls = <<>> /\ deleteCalls = <<>> /\ markCalls = <<>>
    /\ server \in InitialServers
    /\ nextSrv = Len(server) + 1 /\ nextTemp = 1
    /\ ops = 0 /\ budget = allowed /\ lastEvent = Other
    /\ rFn = "getCourses" /\ RetryIdle
    /\ AuxIdle

Init == PageInit(MaxOps)

Next ==
    \/ \E i \in CallSlots : ServerGetCourses(i)
    \/ \E i \in CallSlots : ServerAddCourse(i)
    \/ \E i \in CallSlots : ServerDeleteCourse(i)
    \/ \E i \in CallSlots : ServerMarkAttendance(i)
    \/ \E k \in CallKinds, i \in CallSlots, e \in TransientErrors : ServerError(k, i, e)
    \/ \E i \in CallSlots : FetchSuccess(i)
    \/ \E i \in CallSlots : FetchFail(i)
    \/ \E n \in CourseNames : handleAddCourse(n)
    \/ \E i \in CallSlots : AddSuccess(i)
    \/ \E i \in CallSlots : AddFail(i)
    \/ \E i \in 1..Len(courses) : confirmDeleteCourse(i)
    \/ \E i \in CallSlots : DeleteSuccess(i)
    \/ \E i \in CallSlots : DeleteFail(i)
    \/ \E d \in Days : handleDayInteraction(d)
    \/ \E i \in CallSlots : MarkSuccess(i)
    \/ \E i \in CallSlots : MarkFail(i)
    \/ \E id \in Ids(courses) : SelectCourse(id)

Spec == Init /\ [][Next]_vars

(***************************************************************************)
(* The calendar specification: the page is loaded and the user only clicks *)
(* days of the selected course.                                            *)
(***************************************************************************)
ClicksInit == PageInit(MaxClicks)

ClicksNext ==
    \/ \E i \in CallSlots : ServerGetCourses(i)
    \/ \E i \in CallSlots : FetchSuccess(i)
    \/ \E d \in Days : handleDayInteraction(d)
    \/ \E i \in CallSlots : ServerMarkAttendance(i)
    \/ \E i \in CallSlots, e \in TransientErrors : ServerError("mark", i, e)
    \/ \E i \in CallSlots : MarkSuccess(i)
    \/ \E i \in CallSlots : MarkFail(i)

SpecClicks == ClicksInit /\ [][ClicksNext]_vars

(***************************************************************************)
(* The retry specification: one run of retryRequest against any replies.   *)
(***************************************************************************)
\* the attendance page not mounted
PageIdle ==
    /\ courses = <<>> /\ selectedCourseId = NoId /\ newCourseName = ""
    /\ isLoading = FALSE /\ error = NoMsg /\ displayedCourseIds = {}
    /\ courseToDelete = NoTarget /\ deleteConfirmationText = ""
    /\ fetchCalls = <<>> /\ addCalls = <<>> /\ deleteCalls = <<>> /\ markCalls = <<>>
    /\ server = <<>> /\ nextSrv = 1 /\ nextTemp = 1
    /\ ops = 0 /\ budget = 0 /\ lastEvent = Other

RetryInit ==
    /\ PageIdle
    /\ rFn \in ServiceFns /\ RetryIdle
    /\ AuxIdle

RetryNext == RetryAttempt \/ RetryBackoff

SpecRetry == RetryInit /\ [][RetryNext]_vars

(***************************************************************************)
(* Properties of the page (specification Spec).                            *)
(***************************************************************************)
DaySet(c) == [attended |-> Range(c.attendedDays), missed |-> Range(c.missedDays)]
Quiescent == fetchCalls = <<>> /\ addCalls = <<>> /\ deleteCalls = <<>> /\ markCalls = <<>>
Resumed(op) == lastEvent.op = op

\* C1: no local course ever has a date in both attendedDays and missedDays, in
\* particular not the selected one after a day was marked attended and then
\* missed before the first request resolved, whatever the requests' fates.
C1_AttendedMissedDisjoint ==
    \A i \in 1..Len(courses) :
        Range(courses[i].attendedDays) \cap Range(courses[i].missedDays) = {}

\* the second click ('missed') was made while the first ('attended') was in flight
C1_Witness ==
    /\ Len(markCalls) = 2
    /\ markCalls[1].status = "attended" /\ markCalls[2].status = "missed"
    /\ markCalls[1].date = markCalls[2].date
    /\ markCalls[1].courseId = markCalls[2].courseId
    /\ HasCourse(courses, markCalls[2].courseId)
    /\ markCalls[2].date \in Range(CourseOf(courses, markCalls[2].courseId).missedDays)

\* C2: right after a failed mark-attendance request was rolled back, the course
\* the click was made on has the attendedDays and missedDays it had just before
\* that click.
C2_MarkFailureRestores ==
    Resumed("markFail") /\ HasCourse(courses, lastEvent.call.courseId) =>
        LET c == CourseOf(courses, lastEvent.call.courseId)
        IN /\ c.attendedDays = lastEvent.call.currentCourse.attendedDays
           /\ c.missedDays = lastEvent.call.currentCourse.missedDays

C2_Witness ==
    /\ Resumed("markFail") /\ HasCourse(courses, lastEvent.call.courseId)
    /\ lastEvent.call.status = "attended"
    /\ lastEvent.call.date \notin Range(CourseOf(courses, lastEvent.call.courseId).attendedDays)

\* C3 (as claimed): once no request is in flight, every course of the local
\* state that the backend holds shows the attendance the backend holds for it.
LocalMatchesServer ==
    \A i \in 1..Len(courses) :
        HasBackendCourse(courses[i].id) =>
            DaySet(courses[i]) = DaySet(transformCourse(BackendCourseOf(courses[i].id)))

C3_EventuallyConsistent == Quiescent => LocalMatchesServer

\* C4 (as claimed): right after a failed create-course request was rolled back,
\* the course list, the displayed ids and the selected id are what they were
\* when Add was pressed, and the temporary id is in none of them.
C4_AddFailureRestores ==
    Resumed("addFail") =>
        /\ courses = lastEvent.call.courses
        /\ displayedCourseIds = lastEvent.call.preDisplayed
        /\ selectedCourseId = lastEvent.call.selectedCourseId
        /\ lastEvent.call.tempId \notin Ids(courses) \cup displayedCourseIds \cup {selectedCourseId}

\* C5: right after a failed delete-course request was rolled back, the course
\* list, the displayed ids and the selected id are what they were when the
\* deletion was confirmed.
C5_DeleteFailureRestores ==
    Resumed("deleteFail") =>
        /\ courses = lastEvent.call.originalCourses
        /\ displayedCourseIds = lastEvent.call.originalDisplayedCourseIds
        /\ selectedCourseId = lastEvent.call.originalSelectedCourseId

\* the deleted course was the selected one, so the selection had moved
C5_Witness ==
    /\ Resumed("deleteFail")
    /\ lastEvent.call.originalSelectedCourseId = lastEvent.call.courseId
    /\ selectedCourseId = lastEvent.call.courseId
    /\ HasCourse(courses, lastEvent.call.courseId)

\* C6: right after a mark-attendance request succeeded, the local entry of the
\* course selected at click time is the course the server returned.
C6_MarkSuccessReconciles ==
    Resumed("markSuccess") =>
        \A i \in 1..Len(courses) :
            courses[i].id = lastEvent.call.courseId => courses[i] = lastEvent.call.data

\* a later click's optimistic value was on display and has been discarded
C6_Witness ==
    /\ Resumed("markSuccess") /\ HasCourse(courses, lastEvent.call.courseId)
    /\ \E j \in 1..Len(markCalls) :
         /\ markCalls[j].courseId = lastEvent.call.courseId
         /\ markCalls[j].currentCourse =
               OptimisticCourse(lastEvent.call.currentCourse, lastEvent.call.date,
                                lastEvent.call.status)
         /\ CourseOf(courses, lastEvent.call.courseId) #
               OptimisticCourse(markCalls[j].currentCourse, markCalls[j].date,
                                markCalls[j].status)

\* C19 (as claimed): right after a create-course request succeeded, the
\* temporary id is neither in the course list, nor in the displayed ids, nor
\* the selected id.
C19_TempIdGone ==
    Resumed("addSuccess") =>
        lastEvent.call.tempId \notin Ids(courses) \cup displayedCourseIds \cup {selectedCourseId}

\* C24: no mark-attendance request is in flight, hence none is ever sent, for
\* a course id that is a temporary one.
C24_NoMarkOnTemporaryCourse ==
    \A i \in 1..Len(markCalls) : markCalls[i].courseId[1] # "temp"

\* a mark request is sent while a course with a temporary id, whose creation
\* the server has not answered, is in the list
C24_Witness ==
    /\ markCalls # <<>> /\ markCalls[Len(markCalls)].phase = "sent"
    /\ \E i \in 1..Len(addCalls) :
         addCalls[i].phase = "sent" /\ HasCourse(courses, addCalls[i].tempId)

\* C25 (as claimed): when a create-course or mark-attendance request has just
\* succeeded while a delete request was in flight and that delete then fails,
\* the rollback brings the deleted course back and leaves every other course
\* of the list as it was, the result of the other operation included.
C25_DeleteRollbackKeepsOtherResults ==
    [][ /\ lastEvent.op \in {"addSuccess", "markSuccess"}
        /\ lastEvent'.op = "deleteFail"
        => /\ HasCourse(courses', lastEvent'.call.courseId)
           /\ \A i \in 1..Len(courses) :
                 \E j \in 1..Len(courses') : courses'[j] = courses[i] ]_vars

\* C14 (as claimed): right after a create-course request failed with a 409,
\* the error on display is the duplicate-name message with the attempted name.
C14_ConflictMessageNamesCourse ==
    Resumed("addFail") /\ lastEvent.call.err.statusCode = 409 =>
        error = Msg("Course name already exists. Please choose a different name.",
                    lastEvent.call.courseName)

\* C15: right after a create-course request failed with a 409, the course-name
\* input, which pressing Add had cleared, holds the attempted name again.
C15_ConflictRestoresInput ==
    Resumed("addFail") /\ lastEvent.call.err.statusCode = 409 =>
        newCourseName = lastEvent.call.courseName

C15_Witness ==
    /\ Resumed("addFail") /\ lastEvent.call.err.statusCode = 409
    /\ lastEvent.call.courseName = "Math" /\ newCourseName = "Math"
    /\ ~HasCourse(courses, lastEvent.call.tempId)

(***************************************************************************)
(* Properties of the calendar (specification SpecClicks).                  *)
(***************************************************************************)
\* the cycle unmarked -> attended -> missed -> unmarked
NextInCycle(state) ==
    IF state = "unmarked" THEN "attended"
    ELSE IF state = "attended" THEN "missed"
    ELSE "unmarked"

\* the status whose request moves a day to the given state
RequestFor(state) == IF state = "unmarked" THEN "clear" ELSE state

\* C10: a click on a non-future day of the selected course requests the status
\* that follows the day's state at the click ('attended' if unmarked, 'missed'
\* if attended, 'clear' if missed); when the request succeeds the day is in
\* that next state; and the third of three successive successful clicks on a
\* day leaves it as it was before the first, unmarked if it was unmarked.
C10_ClickCycle ==
    /\ \A i \in 1..Len(markCalls) :
          LET call == markCalls[i]
          IN /\ ~IsFuture(call.date)
             /\ call.status = RequestFor(NextInCycle(DayState(call.currentCourse, call.date)))
    /\ Resumed("markSuccess") /\ HasCourse(courses, lastEvent.call.courseId) =>
          LET call == lastEvent.call
              now == DayState(CourseOf(courses, call.courseId), call.date)
          IN /\ call.status = RequestFor(NextInCycle(DayState(call.currentCourse, call.date)))
             /\ now = NextInCycle(DayState(call.currentCourse, call.date))
             /\ call.chain = 2 => now = call.origin

\* the third successive successful click on a day that was unmarked
C10_Witness ==
    /\ Resumed("markSuccess") /\ HasCourse(courses, lastEvent.call.courseId)
    /\ lastEvent.call.chain = 2 /\ lastEvent.call.origin = "unmarked"
    /\ lastEvent.call.status = "clear"
    /\ DayState(CourseOf(courses, lastEvent.call.courseId), lastEvent.call.date) = "unmarked"

(***************************************************************************)
(* Properties of retryRequest (specification SpecRetry).                   *)
(***************************************************************************)
IsServerError(e) == e.statusCode >= 500
Terminated == rPc \in {"returned", "thrown"}

\* C7 (as claimed): an attempt is followed by another one only if it failed
\* with a 5xx status or with a network failure.
C7_RetryOnlyTransient ==
    \A k \in 1..(Len(rHist) - 1) :
        /\ rHist[k].kind = "error"
        /\ IsServerError(rHist[k].error) \/ rHist[k].error = NetworkError

\* C8: an attempt that fails with a 4xx status is the last one and its error is
\* the one thrown; when it is the first attempt, one request was sent in all.
C8_ClientErrorNotRetried ==
    \A k \in 1..Len(rHist) :
        rHist[k].kind = "error" /\ rHist[k].error.statusCode \in {400, 401, 403, 404, 409} =>
            /\ k = Len(rHist)
            /\ rPc = "thrown"
            /\ rOutcome = [kind |-> "thrown", error |-> rHist[k].error]

C8_Witness ==
    /\ Len(rHist) = 1 /\ rHist[1].kind = "error" /\ rHist[1].error.statusCode = 409
    /\ rPc = "thrown"

\* C9: at most maxRetries + 1 attempts are made, after which the call has
\* terminated; it returns on its first successful attempt, and it throws the
\* error of its last attempt when none succeeded.
C9_BoundedAttempts ==
    /\ Len(rHist) <= maxRetries + 1
    /\ Len(rHist) = maxRetries + 1 => Terminated
    /\ \A k \in 1..(Len(rHist) - 1) : rHist[k].kind = "error"
    /\ rPc = "returned" <=> (Len(rHist) > 0 /\ rHist[Len(rHist)].kind = "ok")
    /\ rPc = "thrown" =>
          /\ rHist[Len(rHist)].kind = "error"
          /\ rOutcome = [kind |-> "thrown", error |-> rHist[Len(rHist)].error]

\* three attempts were made and the third one failed too
C9_Witness ==
    /\ Len(rHist) = maxRetries + 1 /\ rPc = "thrown"
    /\ IsServerError(rHist[maxRetries + 1].error)

(***************************************************************************)
(* services/commonChatService.ts: voteOnPoll on the poll kept in           *)
(* localStorage.  A call is synchronous, so it is one step.                *)
(***************************************************************************)
\* users of the chat, and the messages of the store: a text ("msg-2"), the
\* poll ("msg-3"), and an id the store does not hold
PollUsers == {"user-amit-verma", "user-priya-mehta", "user-rohan-sharma"}
PollMessageIds == {"msg-2", "msg-3", "msg-9"}
\* the poll of the mock data has three options
NumOptions == 3

\* opt.voters.includes(userId)
Includes(voters, userId) == \E i \in 1..Len(voters) : voters[i] = userId
\* const voterIndex = opt.voters.indexOf(userId);
\* if (voterIndex > -1) opt.voters.splice(voterIndex, 1)
Splice(voters, userId) ==
    IF ~Includes(voters, userId) THEN voters
    ELSE LET k == CHOOSE i \in 1..Len(voters) :
                      voters[i] = userId /\ \A j \in 1..(i - 1) : voters[j] # userId
         IN [j \in 1..(Len(voters) - 1) |-> IF j < k THEN voters[j] ELSE voters[j + 1]]

\* a plausible slip: the previous vote is kept
RetractedKept(options, userId) == options

\* "Retract previous vote"
Retracted(options, userId) ==
    IF \E i \in 1..Len(options) : Includes(options[i], userId)
    THEN [i \in 1..Len(options) |-> Splice(options[i], userId)]
    ELSE options

\* One call: the poll is looked up (messages.findIndex on id and type), the
\* previous vote retracted, the new one pushed; the poll is stored only on the
\* path that reaches saveChatMessages.  optionIndex NumOptions + 1 is invalid.
voteOnPoll(messageId, optionIndex, userId) ==
    /\ LET retracted == Retracted(pollVoters, userId)
           found == messageId = "msg-3"
           valid == optionIndex \in 1..Len(pollVoters)
       IN /\ pollVoters' = IF found /\ valid
                           THEN [retracted EXCEPT ![optionIndex] = Append(@, userId)]
                           ELSE pollVoters
          /\ pollLast' = [userId |-> userId, optionIndex |-> optionIndex,
                          messageId |-> messageId, result |-> found /\ valid,
                          before |-> pollVoters]
    /\ UNCHANGED <<pageVars, retryVars, fnVars, httpSent, calVars, dealVars, friendVars, listPage, listSubs>>

\* the number of times a user id occurs in the voter lists of a poll
Occurrences(options, userId) ==
    LET RECURSIVE count(_, _)
        count(voters, k) ==
            IF k = 0 THEN 0
            ELSE count(voters, k - 1) + (IF voters[k] = userId THEN 1 ELSE 0)
        RECURSIVE total(_)
        total(i) == IF i = 0 THEN 0 ELSE total(i - 1) + count(options[i], Len(options[i]))
    IN total(Len(options))

\* the stored polls a run of votes can have left: each user in one option's
\* list or in none (choice 0), the earlier voter first in a list
InitialPolls ==
    LET orders == { <<"user-amit-verma", "user-priya-mehta", "user-rohan-sharma">>,
                    <<"user-rohan-sharma", "user-priya-mehta", "user-amit-verma">> }
        PollOf(choice, order) ==
            [i \in 1..NumOptions |-> LET keep(u) == choice[u] = i IN SelectSeq(order, keep)]
    IN { PollOf(choice, order) : choice \in [PollUsers -> 0..NumOptions], order \in orders }

PollInit ==
    /\ PageIdle
    /\ rFn = "getCourses" /\ RetryIdle
    /\ pollVoters \in InitialPolls /\ pollLast = NoVote
    /\ FnIdle /\ httpSent = {} /\ CalIdle /\ DealIdle /\ FriendIdle /\ ListIdle

PollNext ==
    \E m \in PollMessageIds, i \in 1..(NumOptions + 1), u \in PollUsers : voteOnPoll(m, i, u)

SpecPoll == PollInit /\ [][PollNext]_vars

(***************************************************************************)
(* Properties of the poll (specification SpecPoll).                        *)
(***************************************************************************)
\* C11: whatever votes are cast on a poll in which each user started in at most
\* one option, each user id occurs at most once over all the voter lists.
C11_OneVotePerUser ==
    \A u \in PollUsers : Occurrences(pollVoters, u) <= 1

\* a user who had voted for one option has voted for another: the vote moved
C11_Witness ==
    /\ pollLast.result = TRUE
    /\ \E i \in 1..NumOptions :
          /\ i # pollLast.optionIndex
          /\ Includes(pollLast.before[i], pollLast.userId)
          /\ ~Includes(pollVoters[i], pollLast.userId)
    /\ Includes(pollVoters[pollLast.optionIndex], pollLast.userId)

(***************************************************************************)
(* The functions of services/attendanceService.ts applied to any argument. *)
(***************************************************************************)
\* attendanceHistory arrays of up to MaxHistory entries; date 0 is an entry
\* without a date
MaxHistory == 3
\* the backend course of the integration guide's transformation example
ExampleBackendCourse ==
    [_id |-> SrvId(1), name |-> "", color |-> "",
     attendanceHistory |-> <<[date |-> 21, present |-> TRUE], [date |-> 22, present |-> FALSE]>>]

BackendCourses ==
    LET Entries == [date : {0, 21, 22}, present : BOOLEAN]
        Histories == UNION { [1..n -> Entries] : n \in 0..MaxHistory }
    IN { [_id |-> SrvId(1), name |-> n, color |-> n, attendanceHistory |-> h] :
             n \in {"", "Math"}, h \in Histories }

\* the responses fetch can resolve with, as handleResponse reads them
Responses == [status : Statuses, json : BOOLEAN, success : BOOLEAN,
              message : {"", BackendMessage}]

FnInit ==
    /\ PageIdle
    /\ rFn = "getCourses" /\ RetryIdle
    /\ PollIdle
    /\ \/ fnName = "transformCourse" /\ fnIn \in BackendCourses
       \/ fnName = "handleResponse" /\ fnIn \in Responses
    /\ fnOut = [done |-> FALSE]
    /\ httpSent = {} /\ CalIdle /\ DealIdle /\ FriendIdle /\ ListIdle

ApplyTransformCourse ==
    /\ fnName = "transformCourse" /\ ~fnOut.done
    /\ fnOut' = [done |-> TRUE, value |-> transformCourse(fnIn)]
    /\ UNCHANGED <<fnName, fnIn, pageVars, retryVars, pollVars, httpSent, calVars, dealVars, friendVars, listPage, listSubs>>

ApplyHandleResponse ==
    /\ fnName = "handleResponse" /\ ~fnOut.done
    /\ fnOut' = [done |-> TRUE, value |-> handleResponse(fnIn)]
    /\ UNCHANGED <<fnName, fnIn, pageVars, retryVars, pollVars, httpSent, calVars, dealVars, friendVars, listPage, listSubs>>

FnNext == ApplyTransformCourse \/ ApplyHandleResponse

SpecFn == FnInit /\ [][FnNext]_vars

(***************************************************************************)
(* Properties of the service functions (specification SpecFn).             *)
(***************************************************************************)
\* the dates of the entries of a history whose flag is `flag`, entries
\* without a date left out, in the order of the history
DatesWhere(hist, flag) ==
    LET I == {i \in 1..Len(hist) : hist[i].present = flag /\ hist[i].date # 0}
        nth(k) == CHOOSE i \in I : Cardinality({j \in I : j < i}) = k - 1
    IN [k \in 1..Cardinality(I) |-> hist[nth(k)].date]

\* C12: the transformed course's attendedDays is exactly the list of the dates
\* of the history entries whose present flag is true, its missedDays exactly
\* those whose flag is false, entries without a date being in neither.
C12_TransformPartitionsHistory ==
    fnName = "transformCourse" /\ fnOut.done =>
        /\ fnOut.value.attendedDays = DatesWhere(fnIn.attendanceHistory, TRUE)
        /\ fnOut.value.missedDays = DatesWhere(fnIn.attendanceHistory, FALSE)

\* an entry without a date, among entries of both kinds, was left out
C12_Witness ==
    /\ fnName = "transformCourse" /\ fnOut.done
    /\ \E i \in 1..Len(fnIn.attendanceHistory) : fnIn.attendanceHistory[i].date = 0
    /\ fnOut.value.attendedDays # <<>> /\ fnOut.value.missedDays # <<>>

\* C13 (as claimed): the example course transforms into a course equal to
\* {id, attendedDays, missedDays}.
C13_ExampleEqualsThreeFields ==
    fnName = "transformCourse" /\ fnOut.done /\ fnIn = ExampleBackendCourse =>
        fnOut.value = [id |-> SrvId(1), attendedDays |-> <<21>>, missedDays |-> <<22>>]

\* C13 (amended): the example course transforms into the course with that id
\* and those attendedDays and missedDays, and with the default name and colour.
C13_ExampleTransformed ==
    fnName = "transformCourse" /\ fnOut.done /\ fnIn = ExampleBackendCourse =>
        fnOut.value = [id |-> SrvId(1), name |-> "Unnamed Course", color |-> "#8B5CF6",
                       attendedDays |-> <<21>>, missedDays |-> <<22>>]

C13_Witness ==
    /\ fnName = "transformCourse" /\ fnOut.done /\ fnIn = ExampleBackendCourse
    /\ fnOut.value.id = SrvId(1)

FetchSites ==
    {"api.get", "api.post", "api.patch", "api.put", "api.delete",
     "uploadAllotmentProof", "sendOtp", "verifyOtpAndRegister", "verifyOtp"}

\* the init object passed to fetch; a key the site does not set is "unset"
\* (fetch then uses its default: credentials 'same-origin')
RequestInitOf(site) ==
    IF site \in {"api.get", "api.post", "api.patch", "api.put", "api.delete"}
    THEN \* config = {...defaultOptions, ...options, headers}; no caller passes
         \* credentials in its options
         [site |-> site, credentials |-> "include", contentType |-> "application/json"]
    ELSE IF site = "uploadAllotmentProof"
    THEN [site |-> site, credentials |-> "include", contentType |-> "unset"]
    ELSE [site |-> site, credentials |-> "unset", contentType |-> "application/json"]

SendRequest(site) ==
    /\ httpSent' = httpSent \cup {RequestInitOf(site)}
    /\ UNCHANGED <<pageVars, retryVars, pollVars, fnVars, calVars, dealVars, friendVars, listPage, listSubs>>

HttpInit ==
    /\ PageIdle
    /\ rFn = "getCourses" /\ RetryIdle
    /\ PollIdle /\ FnIdle /\ CalIdle /\ DealIdle /\ FriendIdle /\ ListIdle
    /\ httpSent = {}

HttpNext == \E site \in FetchSites : SendRequest(site)

SpecHttp == HttpInit /\ [][HttpNext]_vars

(***************************************************************************)
(* Properties of the requests (specification SpecHttp).                    *)
(***************************************************************************)
\* C17 (as claimed): every request handed to fetch carries credentials:
\* 'include'.
C17_EveryRequestIncludesCredentials ==
    \A r \in httpSent : r.credentials = "include"

(***************************************************************************)
(* MonthlyCalendar and its clock.  Instants are counted in half hours, a   *)
(* day has 48 of them; calTime.tz is what local time is ahead of UTC.      *)
(***************************************************************************)
\* date.toISOString().split('T')[0]: the UTC date of an instant
toISODateString(date) == date \div 48
\* new Date(year, month, dayCounter): midnight of a calendar day, local time
CellDate(day, tz) == 48 * day - tz
\* the calendar day an instant falls on, local time (getDate())
LocalDay(date, tz) == (date + tz) \div 48

\* const isFuture = date > today && dateString !== todayString
isFuture(date, today) ==
    date > today /\ toISODateString(date) # toISODateString(today)

\* a click on the cell of a calendar day: the button is disabled and
\* handleInteraction returns when isFuture, else onDayClick(dateString, ...)
ClickDay(day) ==
    /\ LET date == CellDate(day, calTime.tz)
       IN calClicks' = IF isFuture(date, calTime.now) THEN calClicks
                       ELSE calClicks \cup {[day |-> day, dateString |-> toISODateString(date)]}
    /\ UNCHANGED <<calTime, pageVars, retryVars, pollVars, fnVars, httpSent, dealVars, friendVars, listPage, listSubs>>

\* any half hour of one UTC day, in New York (UTC-5), in UTC and in India
\* (UTC+5:30)
CalInit ==
    /\ PageIdle
    /\ rFn = "getCourses" /\ RetryIdle
    /\ PollIdle /\ FnIdle /\ httpSent = {} /\ DealIdle /\ FriendIdle /\ ListIdle
    /\ calTime \in [now : 96..143, tz : {-10, 0, 11}]
    /\ calClicks = {}

\* the cells from yesterday to the day after tomorrow
CalNext ==
    \E day \in (LocalDay(calTime.now, calTime.tz) - 1)..(LocalDay(calTime.now, calTime.tz) + 2) :
        ClickDay(day)

SpecCalendar == CalInit /\ [][CalNext]_vars

(***************************************************************************)
(* Properties of the calendar clock (specification SpecCalendar).          *)
(***************************************************************************)
\* C18 (as claimed): no onDayClick call, hence no optimistic change and no
\* mark-attendance request, is ever made for a calendar day later than today.
C18_FutureDayNeverMarked ==
    \A c \in calClicks : c.day <= LocalDay(calTime.now, calTime.tz)

(***************************************************************************)
(* RoomRequestsPage: the request cards, handleApproveDeal, swapUserRooms.  *)
(***************************************************************************)
\* listingsMap.get(listingId)?.listedBy.id, over MOCK_ROOM_LISTINGS
ListerOf(listingId) ==
    CASE listingId = "1" -> "user-amit.verma"
      [] listingId = "2" -> "user-priya.mehta"
      [] listingId = "3" -> "user-rohan.sharma"
      [] listingId = "4" -> "user-vikram.singh"
      [] listingId = "5" -> "user-anjali.desai"

\* RequestCard: approvals.includes(currentUserId), for every card, as a render
\* of the page computes it from the approvals arrays apps
currentUserHasApproved(apps) == [i \in DOMAIN apps |-> Includes(apps[i], dealUser)]

\* request i is in the list of the active tab (sentRequests, receivedRequests)
\* and no modal covers the page
InTab(i) ==
    /\ ~congrats.open
    /\ \/ activeTab = "sent" /\ allRequests[i].requesterId = dealUser
       \/ activeTab = "received" /\ ListerOf(allRequests[i].listingId) = dealUser

\* the tab buttons; the page renders again
setActiveTab(tab) ==
    /\ ~congrats.open /\ tab # activeTab
    /\ activeTab' = tab
    /\ hasApprovedShown' = currentUserHasApproved(approvals)
    /\ UNCHANGED <<dealUser, allRequests, approvals, congrats, dealCalls, roomOf,
                   swapCount, dealClicks>>
    /\ UNCHANGED <<pageVars, retryVars, pollVars, fnVars, httpSent, calVars, friendVars, listPage, listSubs>>

\* Accept and Reject on a received card, Withdraw on a sent card, while the
\* request is Pending
handleRequestStatusUpdate(requestId, newStatus) ==
    /\ \E i \in 1..Len(allRequests) :
         /\ allRequests[i].id = requestId /\ InTab(i)
         /\ allRequests[i].status = "Pending"
         /\ IF activeTab = "received" THEN newStatus \in {"Accepted", "Rejected"}
                                      ELSE newStatus = "Withdrawn"
         /\ allRequests' = [allRequests EXCEPT ![i].status = newStatus]
    /\ hasApprovedShown' = currentUserHasApproved(approvals)
    /\ UNCHANGED <<dealUser, approvals, activeTab, congrats, dealCalls, roomOf,
                   swapCount, dealClicks>>
    /\ UNCHANGED <<pageVars, retryVars, pollVars, fnVars, httpSent, calVars, friendVars, listPage, listSubs>>

\* a plausible slip: one party's approval is enough
MutualApprovalEither(apps, requesterId, listerId) ==
    Includes(apps, requesterId) \/ Includes(apps, listerId)

\* "Check for mutual approval" (listerId is never missing: every request of
\* the page names a listing of MOCK_ROOM_LISTINGS)
MutualApproval(apps, requesterId, listerId) ==
    Includes(apps, requesterId) /\ Includes(apps, listerId)

\* A click on the Approve Deal button of a card: the button is there while the
\* status is Accepted and is disabled by the currentUserHasApproved of the last
\* render.  handleApproveDeal runs up to `await swapUserRooms(...)`, or to its
\* end when the approval is not mutual.  `request` is a shallow copy, so the
\* push goes into the approvals array that the state's request holds.
handleApproveDeal(requestId) ==
    /\ dealClicks < MaxDealClicks
    /\ \E requestIndex \in 1..Len(allRequests) :
         /\ allRequests[requestIndex].id = requestId /\ InTab(requestIndex)
         /\ allRequests[requestIndex].status = "Accepted"
         /\ ~hasApprovedShown[requestIndex]
         /\ LET request == allRequests[requestIndex]
                pushed == IF Includes(approvals[requestIndex], dealUser)
                          THEN approvals[requestIndex]
                          ELSE Append(approvals[requestIndex], dealUser)
                listerId == ListerOf(request.listingId)
            IN /\ approvals' = [approvals EXCEPT ![requestIndex] = pushed]
               /\ IF MutualApproval(pushed, request.requesterId, listerId)
                  THEN /\ dealCalls' = Append(dealCalls,
                              [requestIndex |-> requestIndex,
                               updatedRequests |->
                                   [allRequests EXCEPT ![requestIndex].status = "Confirmed"],
                               requesterId |-> request.requesterId,
                               listerId |-> listerId])
                       /\ UNCHANGED <<allRequests, hasApprovedShown>>
                  ELSE \* setAllRequests(updatedRequests): same contents, a render
                       /\ hasApprovedShown' = currentUserHasApproved(approvals')
                       /\ UNCHANGED <<allRequests, dealCalls>>
    /\ dealClicks' = dealClicks + 1
    /\ UNCHANGED <<dealUser, activeTab, congrats, roomOf, swapCount>>
    /\ UNCHANGED <<pageVars, retryVars, pollVars, fnVars, httpSent, calVars, friendVars, listPage, listSubs>>

\* swapUserRooms after its delay, on the users db `users` (user id -> room) of
\* localStorage: null when one of the two users is not in it, otherwise the
\* two entries exchange their currentRoom and the db is saved
swapUserRooms(users, userId1, userId2) ==
    IF userId1 \notin DOMAIN users \/ userId2 \notin DOMAIN users
    THEN [swappedUsers |-> FALSE, users |-> users]
    ELSE LET room1 == users[userId1]
             room2 == users[userId2]
         IN [swappedUsers |-> TRUE,
             users |-> [[users EXCEPT ![userId1] = room2] EXCEPT ![userId2] = room1]]

\* The 500 ms timer of the oldest waiting swapUserRooms fires: the rest of
\* swapUserRooms, then (microtasks, before any other timer or click) the rest
\* of handleApproveDeal: refreshUser, the congratulation modal and
\* setAllRequests(updatedRequests) with the requests of the click's render.
ApproveDealContinue ==
    /\ dealCalls # <<>>
    /\ LET call == Head(dealCalls)
           userId1 == call.requesterId
           userId2 == call.listerId
           swap == swapUserRooms(roomOf, userId1, userId2)
           users == swap.users
       IN /\ roomOf' = users
          /\ swapCount' = [swapCount EXCEPT ![call.requestIndex] = @ + 1]
          /\ congrats' = IF swap.swappedUsers
                         THEN [open |-> TRUE,
                               partner |-> IF dealUser = userId1 THEN userId2 ELSE userId1,
                               room |-> IF dealUser = userId1 THEN users[userId1]
                                                              ELSE users[userId2]]
                         ELSE congrats
          \* outside the `if (swappedUsers)`: the request's copy has been
          \* Confirmed since before the await
          /\ allRequests' = call.updatedRequests
    /\ dealCalls' = Tail(dealCalls)
    /\ hasApprovedShown' = currentUserHasApproved(approvals)
    /\ UNCHANGED <<dealUser, approvals, activeTab, dealClicks>>
    /\ UNCHANGED <<pageVars, retryVars, pollVars, fnVars, httpSent, calVars, friendVars, listPage, listSubs>>

\* the Close button of the congratulation modal
closeCongratsModal ==
    /\ congrats.open
    /\ congrats' = [congrats EXCEPT !.open = FALSE]
    /\ UNCHANGED <<dealUser, allRequests, approvals, activeTab, hasApprovedShown,
                   dealCalls, roomOf, swapCount, dealClicks>>
    /\ UNCHANGED <<pageVars, retryVars, pollVars, fnVars, httpSent, calVars, friendVars, listPage, listSubs>>

\* The page after loadData: the four requests of fetchedRequests, one of the
\* users logged in, and the users db of localStorage: initializeUserDb stores
\* MOCK_USERS_DB only when the key is absent, and otherwise the list found
\* under the key is used as it is, here a list that lacks one of the users.
DealInit ==
    /\ PageIdle
    /\ rFn = "getCourses" /\ RetryIdle
    /\ PollIdle /\ FnIdle /\ httpSent = {} /\ CalIdle /\ FriendIdle /\ ListIdle
    /\ dealUser \in {"user-amit.verma", "user-priya.mehta", "user-rohan.sharma",
                     "user-vikram.singh", "user-anjali.desai"}
    /\ allRequests =
         << [id |-> "req-1", listingId |-> "1", requesterId |-> "user-amit.verma",
             status |-> "Pending"],
            [id |-> "req-2", listingId |-> "5", requesterId |-> "user-rohan.sharma",
             status |-> "Accepted"],
            [id |-> "req-3", listingId |-> "4", requesterId |-> "user-priya.mehta",
             status |-> "Rejected"],
            [id |-> "req-4", listingId |-> "2", requesterId |-> "user-anjali.desai",
             status |-> "Pending"] >>
    /\ approvals = << <<>>, <<"user-vikram.singh">>, <<>>, <<>> >>
    /\ activeTab = "received"
    /\ hasApprovedShown = currentUserHasApproved(approvals)
    /\ congrats = [open |-> FALSE, partner |-> "", room |-> ""]
    /\ dealCalls = <<>>
    /\ \E stored \in {{}} \cup {{u} : u \in {"user-amit.verma", "user-priya.mehta"}} :
         roomOf = [u \in {"user-amit.verma", "user-priya.mehta", "user-rohan.sharma",
                          "user-vikram.singh", "user-anjali.desai"} \ stored |->
                     CASE u = "user-amit.verma" -> "101"
                       [] u = "user-priya.mehta" -> "201"
                       [] u = "user-rohan.sharma" -> "303"
                       [] u = "user-vikram.singh" -> "110"
                       [] u = "user-anjali.desai" -> "007"]
    /\ swapCount = <<0, 0, 0, 0>>
    /\ dealClicks = 0

DealNext ==
    \/ \E tab \in {"sent", "received"} : setActiveTab(tab)
    \/ \E i \in 1..Len(allRequests), newStatus \in {"Accepted", "Rejected", "Withdrawn"} :
         handleRequestStatusUpdate(allRequests[i].id, newStatus)
    \/ \E i \in 1..Len(allRequests) : handleApproveDeal(allRequests[i].id)
    \/ ApproveDealContinue
    \/ closeCongratsModal

SpecDeal == DealInit /\ [][DealNext]_vars

(***************************************************************************)
(* Properties of the room requests (specification SpecDeal).               *)
(***************************************************************************)
\* C20 (as claimed): for each match request, swapUserRooms is executed at most
\* once, whatever the order of the Approve Deal clicks and of the steps of the
\* handleApproveDeal invocations they start.
C20_SwapAtMostOncePerRequest ==
    \A i \in DOMAIN swapCount : swapCount[i] <= 1

\* C22: a request whose status is Confirmed has the ids of its requester and
\* of the lister of its listing among its approvals.
C22_ConfirmedOnlyIfMutual ==
    \A i \in 1..Len(allRequests) :
        allRequests[i].status = "Confirmed" =>
            /\ Includes(approvals[i], allRequests[i].requesterId)
            /\ Includes(approvals[i], ListerOf(allRequests[i].listingId))

\* a request has been confirmed after its swap, while another one, whose
\* approvals lack its lister's, is still Accepted
C22_Witness ==
    \E i, j \in 1..Len(allRequests) :
        /\ allRequests[i].status = "Confirmed" /\ swapCount[i] > 0
        /\ allRequests[j].status = "Accepted" /\ approvals[j] # <<>>
        /\ ~Includes(approvals[j], ListerOf(allRequests[j].listingId))

alreadyExistsOneWay(reqs, fromUserId, toUserId) ==
    \E i \in 1..Len(reqs) : reqs[i].from = fromUserId /\ reqs[i].toUserId = toUserId

\* friendRequestsData.some(req => (from, to) or (to, from))
alreadyExists(reqs, fromUserId, toUserId) ==
    \E i \in 1..Len(reqs) :
        \/ reqs[i].from = fromUserId /\ reqs[i].toUserId = toUserId
        \/ reqs[i].from = toUserId /\ reqs[i].toUserId = fromUserId

\* a plausible slip: the recipient is not looked at
findRequestIndexAnyRecipient(reqs, currentUserId, requestId) ==
    LET found == {i \in 1..Len(reqs) : reqs[i].id = requestId}
    IN IF found = {} THEN 0 ELSE CHOOSE i \in found : \A j \in found : i <= j

\* friendRequestsData.findIndex(req => req.id === requestId &&
\* req.toUserId === currentUserId), 0 for -1
findRequestIndex(reqs, currentUserId, requestId) ==
    LET found == {i \in 1..Len(reqs) :
                     reqs[i].id = requestId /\ reqs[i].toUserId = currentUserId}
    IN IF found = {} THEN 0 ELSE CHOOSE i \in found : \A j \in found : i <= j

\* friendsData[userId], an absent entry read as the empty list (every reader
\* of an entry treats undefined and [] alike)
FriendsOf(data, userId) == IF userId \in DOMAIN data THEN data[userId] ELSE <<>>

sendFriendRequest(fromUserId, toUserId) ==
    /\ friendOps < MaxFriendOps
    \* the clock has advanced since the last request was named, or has not
    /\ friendNow' \in {friendNow, friendNow + 1}
    /\ LET areAlreadyFriends == Includes(FriendsOf(friendsData, fromUserId), toUserId)
           \* MOCK_USERS_DB.find(u => u.id === fromUserId)
           fromUser == fromUserId \in {"user-amit.verma", "user-priya.mehta",
                          "user-rohan.sharma", "user-vikram.singh", "user-anjali.desai"}
           result == IF alreadyExists(friendRequestsData, fromUserId, toUserId)
                        \/ areAlreadyFriends THEN "exists"
                     ELSE IF ~fromUser THEN "throw" ELSE "created"
       IN /\ friendRequestsData' =
                IF result = "created"
                THEN Append(friendRequestsData,
                            \* id: `fr-${Date.now()}`
                            [id |-> <<"fr", friendNow'>>, from |-> fromUserId,
                             toUserId |-> toUserId])
                ELSE friendRequestsData
          /\ friendLast' = [fn |-> "sendFriendRequest", userId |-> fromUserId,
                            other |-> toUserId, requestId |-> <<"fr", 0>>,
                            action |-> "", result |-> result]
    /\ friendOps' = friendOps + 1
    /\ UNCHANGED friendsData
    /\ UNCHANGED <<pageVars, retryVars, pollVars, fnVars, httpSent, calVars, dealVars,
                   listPage, listSubs>>

handleFriendRequest(currentUserId, requestId, action) ==
    /\ friendOps < MaxFriendOps
    /\ LET requestIndex == findRequestIndex(friendRequestsData, currentUserId, requestId)
           request == friendRequestsData[requestIndex]
           pushed1 == [u \in DOMAIN friendsData \cup {currentUserId} |->
                         IF u = currentUserId
                         THEN Append(FriendsOf(friendsData, u), request.from)
                         ELSE friendsData[u]]
           pushed2 == [u \in DOMAIN pushed1 \cup {request.from} |->
                         IF u = request.from
                         THEN Append(FriendsOf(pushed1, u), currentUserId)
                         ELSE pushed1[u]]
       IN IF requestIndex = 0
          THEN \* throw new Error("Request not found or you are not the recipient.")
               /\ UNCHANGED <<friendsData, friendRequestsData>>
               /\ friendLast' = [fn |-> "handleFriendRequest", userId |-> currentUserId,
                                 other |-> "", requestId |-> requestId,
                                 action |-> action, result |-> "throw"]
          ELSE /\ friendsData' = IF action = "accept" THEN pushed2 ELSE friendsData
               /\ friendRequestsData' = RemoveAt(friendRequestsData, requestIndex)
               /\ friendLast' = [fn |-> "handleFriendRequest", userId |-> currentUserId,
                                 other |-> request.from, requestId |-> requestId,
                                 action |-> action, result |-> "ok"]
    /\ friendOps' = friendOps + 1
    /\ UNCHANGED friendNow
    /\ UNCHANGED <<pageVars, retryVars, pollVars, fnVars, httpSent, calVars, dealVars,
                   listPage, listSubs>>

removeFriend(userId, friendIdToRemove) ==
    /\ friendOps < MaxFriendOps
    /\ LET Kept(list) == SelectSeq(list, LAMBDA id : id # friendIdToRemove)
           filtered1 == [u \in DOMAIN friendsData |->
                           IF u = userId THEN Kept(friendsData[u]) ELSE friendsData[u]]
           \* friendsData[friendIdToRemove].filter(id => id !== friendIdToRemove)
           filtered2 == [u \in DOMAIN filtered1 |->
                           IF u = friendIdToRemove THEN Kept(filtered1[u])
                                                   ELSE filtered1[u]]
       IN friendsData' = filtered2
    /\ friendLast' = [fn |-> "removeFriend", userId |-> userId,
                      other |-> friendIdToRemove, requestId |-> <<"fr", 0>>,
                      action |-> "", result |-> "ok"]
    /\ friendOps' = friendOps + 1
    /\ UNCHANGED <<friendRequestsData, friendNow>>
    /\ UNCHANGED <<pageVars, retryVars, pollVars, fnVars, httpSent, calVars, dealVars,
                   listPage, listSubs>>

\* MOCK_FRIENDS_DATA and MOCK_FRIEND_REQUESTS_DATA
FriendInit ==
    /\ PageIdle
    /\ rFn = "getCourses" /\ RetryIdle
    /\ PollIdle /\ FnIdle /\ httpSent = {} /\ CalIdle /\ DealIdle /\ ListIdle
    /\ friendsData =
         [u \in {"user-amit.verma", "user-priya.mehta", "user-rohan.sharma",
                 "user-vikram.singh", "user-anjali.desai"} |->
            CASE u = "user-amit.verma" -> <<"user-priya.mehta", "user-rohan.sharma">>
              [] u = "user-priya.mehta" -> <<"user-amit.verma">>
              [] u = "user-rohan.sharma" -> <<"user-amit.verma", "user-vikram.singh">>
              [] u = "user-vikram.singh" -> <<"user-rohan.sharma">>
              [] u = "user-anjali.desai" -> <<>>]
    /\ friendRequestsData =
         << [id |-> <<"fr", 1>>, from |-> "user-vikram.singh",
             toUserId |-> "user-amit.verma"] >>
    /\ friendNow = 1
    /\ friendOps = 0
    /\ friendLast = [fn |-> ""]

\* the calls, by three of the users and by an id that is not a user's
FriendNext ==
    \E a, b \in {"user-amit.verma", "user-rohan.sharma", "user-vikram.singh",
                 "user-unknown"} :
        \/ sendFriendRequest(a, b)
        \/ \E requestId \in {<<"fr", n>> : n \in 0..(friendNow)},
              action \in {"accept", "reject"} :
                 handleFriendRequest(a, requestId, action)
        \/ removeFriend(a, b)

SpecFriends == FriendInit /\ [][FriendNext]_vars

(***************************************************************************)
(* Properties of the friends service (specification SpecFriends).          *)
(***************************************************************************)
\* C21 (as claimed): friendship is symmetric: a user is in another user's
\* friend list exactly when that user is in theirs.
C21_FriendshipSymmetric ==
    \A a, b \in DOMAIN friendsData :
        Includes(friendsData[a], b) <=> Includes(friendsData[b], a)

C28_NonRecipientThrows ==
    [][ /\ friendOps' # friendOps /\ friendLast'.fn = "handleFriendRequest"
        /\ ~\E i \in 1..Len(friendRequestsData) :
              /\ friendRequestsData[i].id = friendLast'.requestId
              /\ friendRequestsData[i].toUserId = friendLast'.userId
        => /\ friendLast'.result = "throw"
           /\ friendsData' = friendsData
           /\ friendRequestsData' = friendRequestsData ]_vars

\* the request exists and is addressed to somebody else
C28_Witness ==
    /\ friendLast.fn = "handleFriendRequest" /\ friendLast.result = "throw"
    /\ friendLast.action = "accept"
    /\ \E i \in 1..Len(friendRequestsData) :
         /\ friendRequestsData[i].id = friendLast.requestId
         /\ friendRequestsData[i].toUserId # friendLast.userId

(***************************************************************************)
(* ListRoomPage: handleInitiateSubmit, handleConfirmSubmit, and            *)
(* listingService.uploadAllotmentProof.                                    *)
(***************************************************************************)
\* a plausible slip: the body is returned whatever the status and the
\* success flag say
uploadAllotmentProofUnchecked(response) ==
    IF response.kind = "reject"
    THEN [threw |-> TRUE, message |-> "Failed to fetch", data |-> "undefined"]
    ELSE IF ~response.json
    THEN [threw |-> TRUE, message |-> "Unexpected token", data |-> "undefined"]
    ELSE [threw |-> FALSE, message |-> "", data |-> response.data]

\* uploadAllotmentProof from the settlement of its fetch on: what it throws,
\* or the `data` of the body it returns.  A body that is not JSON makes
\* response.json() throw on either branch.
uploadAllotmentProof(response) ==
    IF response.kind = "reject"
    THEN [threw |-> TRUE, message |-> "Failed to fetch", data |-> "undefined"]
    ELSE IF ~response.json
    THEN [threw |-> TRUE, message |-> "Unexpected token", data |-> "undefined"]
    ELSE IF ~response.ok \/ ~response.success
    THEN [threw |-> TRUE,
          message |-> IF response.message # "" THEN response.message
                      ELSE "Failed to upload allotment proof",
          data |-> "undefined"]
    ELSE [threw |-> FALSE, message |-> "", data |-> response.data]

\* the form's submit button (disabled while isLoading)
handleInitiateSubmit ==
    /\ listPage.mounted /\ ~listPage.isLoading /\ ~listPage.isConfirmationModalOpen
    /\ LET text == IF ~listPage.roomNumber THEN "Room number is required."
                   ELSE IF ~listPage.description THEN "Description is required."
                   ELSE IF ~listPage.roomProofFile
                   THEN "Room allocation proof (photo/screenshot) is required."
                   ELSE ""
       IN listPage' = [listPage EXCEPT !.error = [text |-> text, detail |-> ""],
                                       !.success = "",
                                       !.isConfirmationModalOpen = (text = "")]
    /\ UNCHANGED listSubs
    /\ UNCHANGED <<pageVars, retryVars, pollVars, fnVars, httpSent, calVars, dealVars,
                   friendVars>>

\* "Confirm & List Room" in the modal: handleConfirmSubmit up to
\* `await uploadAllotmentProof(...)`
handleConfirmSubmit ==
    /\ listPage.mounted /\ listPage.isConfirmationModalOpen
    /\ Len(listSubs) < MaxSubmits
    /\ IF ~listPage.roomProofFile
       THEN /\ listPage' = [listPage EXCEPT
                              !.isConfirmationModalOpen = FALSE, !.isLoading = FALSE,
                              !.error = [text |-> "Room allocation proof is required.",
                                         detail |-> ""]]
            /\ UNCHANGED listSubs
       ELSE /\ listPage' = [listPage EXCEPT !.isConfirmationModalOpen = FALSE,
                                            !.isLoading = TRUE]
            /\ listSubs' = Append(listSubs,
                              [pc |-> "upload", listingSent |-> FALSE,
                               markedActive |-> FALSE,
                               response |-> [kind |-> "none", ok |-> FALSE, json |-> FALSE,
                                             success |-> FALSE, message |-> "",
                                             data |-> "undefined"]])
    /\ UNCHANGED <<pageVars, retryVars, pollVars, fnVars, httpSent, calVars, dealVars,
                   friendVars>>

\* the upload settles with `response`: the catch and finally blocks when
\* uploadAllotmentProof throws or returns no data, otherwise handleConfirmSubmit
\* up to `await saveListing(listingData)`
UploadReturns(response) ==
    /\ listSubs # <<>> /\ listSubs[Len(listSubs)].pc = "upload"
    /\ LET k == Len(listSubs)
           proofUploadResult == uploadAllotmentProof(response)
       IN IF proofUploadResult.threw \/ proofUploadResult.data = "undefined"
          THEN /\ listSubs' = [listSubs EXCEPT ![k].pc = "failed", ![k].response = response]
               /\ listPage' = [listPage EXCEPT
                     !.isLoading = FALSE,
                     !.error = [text |-> "Failed to create listing: ",
                                detail |-> IF proofUploadResult.threw
                                           THEN proofUploadResult.message
                                           ELSE "Cannot read properties of undefined"]]
          ELSE /\ listSubs' = [listSubs EXCEPT ![k].pc = "save", ![k].response = response,
                                               ![k].listingSent = TRUE]
               /\ UNCHANGED listPage
    /\ UNCHANGED <<pageVars, retryVars, pollVars, fnVars, httpSent, calVars, dealVars,
                   friendVars>>

\* saveListing settles: the rest of the try block, or the catch; the finally
SaveListingReturns(created, message) ==
    /\ listSubs # <<>> /\ listSubs[Len(listSubs)].pc = "save"
    /\ LET k == Len(listSubs)
       IN IF created
          THEN \* updateUserRoom, setUserHasActiveListing(true), the form cleared
               /\ listSubs' = [listSubs EXCEPT ![k].pc = "done", ![k].markedActive = TRUE]
               /\ listPage' = [listPage EXCEPT
                     !.isLoading = FALSE, !.description = FALSE, !.roomProofFile = FALSE,
                     !.success = "Your room has been successfully listed! Redirecting to dashboard..."]
          ELSE /\ listSubs' = [listSubs EXCEPT ![k].pc = "failed"]
               /\ listPage' = [listPage EXCEPT
                     !.isLoading = FALSE,
                     !.error = [text |-> "Failed to create listing: ", detail |-> message]]
    /\ UNCHANGED <<pageVars, retryVars, pollVars, fnVars, httpSent, calVars, dealVars,
                   friendVars>>

\* the page of a logged-in user without an active listing; what the user has
\* put into the form is an input
ListInit ==
    /\ PageIdle
    /\ rFn = "getCourses" /\ RetryIdle
    /\ PollIdle /\ FnIdle /\ httpSent = {} /\ CalIdle /\ DealIdle /\ FriendIdle
    /\ listPage \in [mounted : {TRUE}, roomNumber : BOOLEAN, description : BOOLEAN,
                     roomProofFile : BOOLEAN, error : {[text |-> "", detail |-> ""]},
                     success : {""}, isLoading : {FALSE},
                     isConfirmationModalOpen : {FALSE}]
    /\ listSubs = <<>>

ListNext ==
    \/ handleInitiateSubmit
    \/ handleConfirmSubmit
    \/ \E response \in [kind : {"response"}, ok : BOOLEAN, json : BOOLEAN,
                        success : BOOLEAN, message : {"", "Invalid file type"},
                        data : {"undefined", "proof"}]
                       \cup {[kind |-> "reject", ok |-> FALSE, json |-> FALSE,
                              success |-> FALSE, message |-> "", data |-> "undefined"]} :
          UploadReturns(response)
    \/ \E created \in BOOLEAN : SaveListingReturns(created, "Server error")

SpecListing == ListInit /\ [][ListNext]_vars

============================================================================
